---- MODULE Spec2Model ----
(***************************************************************************)
(* State-machine model of the Salesforce CMS MCP server (version 2.0.0):   *)
(*   - SalesforceCMSClient (src/src/cms-client.js, second class, lines     *)
(*     254-546): the Session (accessToken, tokenExpiry, instanceUrl,       *)
(*     workspaceId, channelId), authenticate, getWorkspaceId,              *)
(*     ensureAuthenticated and the remote-operation methods;               *)
(*   - the call handler of src/unnamed/part_002 (lines 968-1267): the      *)
(*     clearance-token registry, generateClearanceToken and its timer, and *)
(*     the tool dispatch with the create_cms_content gate.                 *)
(*                                                                         *)
(* A call runs synchronously up to its next await of an HTTP response; one *)
(* action models each such run.  The clock, the key file and the timers    *)
(* move between those runs.                                                *)
(***************************************************************************)
EXTENDS Integers, Sequences, FiniteSets, TLC

NULL == "null"

(***************************************************************************)
(* Strings the program looks into are sequences of characters.             *)
(***************************************************************************)
ToLowerCase ==
    ("A" :> "a") @@ ("B" :> "b") @@ ("C" :> "c") @@ ("D" :> "d") @@ ("E" :> "e")
        @@ ("F" :> "f") @@ ("G" :> "g")

CaseFold(ch) == IF ch \in DOMAIN ToLowerCase THEN ToLowerCase[ch] ELSE ch

(***************************************************************************)
(* validateUUID: /^[0-9a-f]{8}-[0-9a-f]{4}-[0-9a-f]{4}-[0-9a-f]{4}-        *)
(* [0-9a-f]{12}$/i.test(id).  The pattern is a sequence of character       *)
(* classes, each with its repeat count; ^ and $ anchor it to the whole     *)
(* input, and the i flag folds the case of the input.                      *)
(***************************************************************************)
HexClass == {"0", "1", "2", "3", "4", "5", "6", "7", "8", "9", "a", "b", "c", "d", "e", "f"}

HyphenClass == {"-"}

uuidRegex ==
    << [class |-> HexClass, count |-> 8], [class |-> HyphenClass, count |-> 1],
       [class |-> HexClass, count |-> 4], [class |-> HyphenClass, count |-> 1],
       [class |-> HexClass, count |-> 4], [class |-> HyphenClass, count |-> 1],
       [class |-> HexClass, count |-> 4], [class |-> HyphenClass, count |-> 1],
       [class |-> HexClass, count |-> 12] >>

InClassExact(ch, class) == ch \in class

\* A character matches a class under the i flag.
InClass(ch, class) == CaseFold(ch) \in class

\* The position in `text` after the pattern items from k on have matched from
\* position p on, or 0 when they do not match.
RECURSIVE MatchFrom(_, _, _, _)
MatchFrom(regex, k, text, p) ==
    IF k > Len(regex) THEN p
    ELSE LET item == regex[k]
             q == p + item.count
         IN IF /\ q - 1 <= Len(text)
               /\ \A i \in p..(q - 1) : InClass(text[i], item.class)
            THEN MatchFrom(regex, k + 1, text, q)
            ELSE 0

validateUUID(id) == MatchFrom(uuidRegex, 1, id, 1) = Len(id) + 1

(***************************************************************************)
(* validateEmailStructure(contentBody).  A block is [id, definition,       *)
(* children]; a missing definition is NULL and missing children are <<>>.  *)
(* Each message is kept as the rule it reports and the place it names.     *)
(***************************************************************************)
RootTag == "sfdc_cms/rootContentBlock"

SectionTag == "lightning/section"

ColumnTag == "lightning/column"

\* validateBlock(block, path) and its forEach over block.children.
RECURSIVE validateBlock(_, _)
RECURSIVE validateChildren(_, _, _)
validateBlock(block, path) ==
    (IF ~validateUUID(block.id) THEN << [rule |-> "Invalid UUID", at |-> path] >> ELSE <<>>)
        \o (IF block.definition = NULL
            THEN << [rule |-> "Missing definition", at |-> path] >> ELSE <<>>)
        \o validateChildren(block.children, path, 1)

validateChildren(children, path, k) ==
    IF k > Len(children) THEN <<>>
    ELSE validateBlock(children[k], Append(path, k - 1))
            \o validateChildren(children, path, k + 1)

\* The forEach over a section's children, stopping at the first error.
RECURSIVE columnErrorsFirstOnly(_, _, _)
columnErrorsFirstOnly(children, sIndex, k) ==
    IF k > Len(children) THEN <<>>
    ELSE IF children[k].definition # ColumnTag
    THEN << [rule |-> "Child of section must be lightning/column", at |-> <<sIndex, k - 1>>] >>
    ELSE columnErrorsFirstOnly(children, sIndex, k + 1)

\* The forEach over a section's children.
RECURSIVE columnErrors(_, _, _)
columnErrors(children, sIndex, k) ==
    IF k > Len(children) THEN <<>>
    ELSE (IF children[k].definition # ColumnTag
          THEN << [rule |-> "Child of section must be lightning/column",
                   at |-> <<sIndex, k - 1>>] >>
          ELSE <<>>)
            \o columnErrors(children, sIndex, k + 1)

\* The forEach over rootBlock.children, stopping at the first error.
RECURSIVE hierarchyErrorsFirstOnly(_, _)
hierarchyErrorsFirstOnly(children, k) ==
    IF k > Len(children) THEN <<>>
    ELSE IF children[k].definition # SectionTag
    THEN << [rule |-> "Direct child of root must be lightning/section", at |-> <<k - 1>>] >>
    ELSE columnErrors(children[k].children, k - 1, 1)
            \o hierarchyErrorsFirstOnly(children, k + 1)

\* The forEach over rootBlock.children.
RECURSIVE hierarchyErrors(_, _)
hierarchyErrors(children, k) ==
    IF k > Len(children) THEN <<>>
    ELSE (IF children[k].definition # SectionTag
          THEN << [rule |-> "Direct child of root must be lightning/section",
                   at |-> <<k - 1>>] >>
          ELSE columnErrors(children[k].children, k - 1, 1))
            \o hierarchyErrors(children, k + 1)

\* A content body is [given, subjectLine, block]: block is <<>> when
\* contentBody['sfdc_cms:block'] is missing, else << rootBlock >>.
MissingBlockAccepted(warnings) ==
    [valid |-> TRUE, errors |-> << [rule |-> "Missing sfdc_cms:block", at |-> <<>>] >>,
     warnings |-> warnings]

\* The early return for a body without sfdc_cms:block.
MissingBlock(warnings) ==
    [valid |-> FALSE, errors |-> << [rule |-> "Missing sfdc_cms:block", at |-> <<>>] >>,
     warnings |-> warnings]

validateEmailStructure(contentBody) ==
    LET warnings == IF ~contentBody.subjectLine THEN << "Missing subjectLine" >> ELSE <<>>
    IN IF contentBody.block = <<>>
       THEN MissingBlock(warnings)
       ELSE LET rootBlock == contentBody.block[1]
                errors ==
                    (IF rootBlock.definition # RootTag
                     THEN << [rule |-> "Root block must be sfdc_cms/rootContentBlock", at |-> <<>>] >>
                     ELSE <<>>)
                    \o (IF ~validateUUID(rootBlock.id)
                        THEN << [rule |-> "Root block ID is not a valid UUID", at |-> <<>>] >>
                        ELSE <<>>)
                    \o validateBlock(rootBlock, <<>>)
                    \o hierarchyErrors(rootBlock.children, 1)
            IN [valid |-> Len(errors) = 0, errors |-> errors, warnings |-> warnings]

\* this.tokenExpiry = null: falsy, like 0, under ensureAuthenticated's test.
NoExpiry == 0

\* args.clearance_token missing.
NoToken == 0


(***************************************************************************)
(* Program constants, in milliseconds.                                     *)
(***************************************************************************)
TOKEN_LIFETIME == 3600000

SAFETY_MARGIN == 60000

CLEARANCE_WINDOW == 1800000

(***************************************************************************)
(* Bounds of the model.                                                    *)
(***************************************************************************)
MaxTokens == 2

MaxCalls == 2

\* The largest number of blocks in a content body.
MaxNodes == 4

(***************************************************************************)
(* The instants Date.now() takes in the model.  A token issued at 0 is due *)
(* exactly at CLEARANCE_WINDOW and one issued at 1 is not yet; a Session   *)
(* refreshed at 0 meets the refresh boundary exactly at TOKEN_LIFETIME -   *)
(* SAFETY_MARGIN and one refreshed at 1 is still short of it: both sides   *)
(* of every comparison with the clock are reached.                         *)
(***************************************************************************)
Instants == {0, 1, CLEARANCE_WINDOW, TOKEN_LIFETIME - SAFETY_MARGIN}

Tokens == 1..MaxTokens

\* The calls a transport lets be in the handler at once: one when it waits for
\* each payload before it hands over the next call, up to MaxCalls when not.
SerialSlots == {1}

OverlapSlots == 1..MaxCalls

AccessTokens == {"tokA"}

WorkspaceIds == {"ws1"}

KeyFileStates == {"unreadable", "malformed", "valid"}

(***************************************************************************)
(* process.env as read at construction: TRUE when the variable is set.     *)
(* At most one value is missing, among those whose absence the client's    *)
(* own code meets (clientId and username only travel inside the signed     *)
(* assertion).                                                             *)
(***************************************************************************)
ConfigKeys == {"instanceUrl", "clientId", "username", "jwtPrivateKeyPath", "workspaceName"}

Configs == {[k \in ConfigKeys |-> k # m] :
                m \in {NULL, "instanceUrl", "jwtPrivateKeyPath", "workspaceName"}}

(***************************************************************************)
(* Entry points.  ToolCalls are the cases of the call handler's switch     *)
(* (plus a name it does not know); DirectCalls are client methods called   *)
(* without the handler, as the repository's scripts do.                    *)
(***************************************************************************)
LocalTools == {"server_version", "get_api_guide"}

RemoteTools == {"list_cms_content", "get_cms_types", "get_api_resources",
                "update_cms_content", "publish_cms_content", "delete_cms_content"}

DirectCalls == {"authenticate", "ensureAuthenticated", "searchContent",
                "updateContentMetadata", "getWorkspaceDetails"}

ContentTypes == {"sfdc_cms__email", "sfdc_cms__news"}

(***************************************************************************)
(* Identifiers of blocks, as the caller writes them.                       *)
(***************************************************************************)
UuidLower ==
    << "1", "2", "3", "e", "4", "5", "6", "7", "-", "e", "8", "9", "b", "-",
       "1", "2", "d", "3", "-", "a", "4", "5", "6", "-",
       "4", "2", "6", "6", "1", "4", "1", "7", "4", "0", "0", "0" >>

UuidUpper ==
    << "1", "2", "3", "E", "4", "5", "6", "7", "-", "E", "8", "9", "B", "-",
       "1", "2", "D", "3", "-", "A", "4", "5", "6", "-",
       "4", "2", "6", "6", "1", "4", "1", "7", "4", "0", "0", "0" >>

NotAUuid == << "n", "o", "t", "-", "a", "-", "u", "u", "i", "d" >>

\* Characters put into, or in place of, those of a UUID.
ProbeChars == {"0", "9", "a", "f", "A", "F", "g", "G", "-", " "}

Substituted(text, p, ch) == [text EXCEPT ![p] = ch]

Deleted(text, p) == SubSeq(text, 1, p - 1) \o SubSeq(text, p + 1, Len(text))

Inserted(text, p, ch) == SubSeq(text, 1, p - 1) \o <<ch>> \o SubSeq(text, p, Len(text))

\* The identifiers validateUUID is put to: UUIDs in either case, and every
\* string one substitution, deletion or insertion away from one.
CandidateIds ==
    {UuidLower, UuidUpper, NotAUuid, <<>>}
        \cup {Substituted(u, p, ch) : u \in {UuidLower, UuidUpper}, p \in 1..Len(UuidLower), ch \in ProbeChars}
        \cup {Deleted(UuidLower, p) : p \in 1..Len(UuidLower)}
        \cup {Inserted(UuidLower, p, ch) : p \in 1..(Len(UuidLower) + 1), ch \in ProbeChars}

(***************************************************************************)
(* Content bodies, as the caller builds them: block trees of at most       *)
(* MaxNodes blocks.                                                        *)
(***************************************************************************)
NodeIds == {UuidLower, NotAUuid}

NodeDefinitions == {SectionTag, ColumnTag, "lightning/paragraph"}

RootDefinitions == {RootTag, SectionTag, NULL}

\* Forests(n): the sequences of blocks that hold n blocks in all.
RECURSIVE Forests(_)
Forests(n) ==
    IF n = 0 THEN {<<>>}
    ELSE UNION {
            {<<[id |-> i, definition |-> d, children |-> sub]>> \o rest :
                i \in NodeIds, d \in NodeDefinitions, sub \in Forests(k - 1), rest \in Forests(n - k)}
            : k \in 1..n}

NoBody == [given |-> FALSE, subjectLine |-> FALSE, block |-> <<>>]

TreeBodies ==
    {[given |-> TRUE, subjectLine |-> TRUE,
      block |-> <<[id |-> i, definition |-> d, children |-> sub]>>] :
        i \in NodeIds, d \in RootDefinitions, sub \in UNION {Forests(n) : n \in 0..(MaxNodes - 1)}}

ProbeBodies ==
    {[given |-> TRUE, subjectLine |-> TRUE,
      block |-> <<[id |-> i, definition |-> RootTag, children |-> <<>>]>>] : i \in CandidateIds}

BareBodies ==
    {[given |-> TRUE, subjectLine |-> sl, block |-> <<>>] : sl \in BOOLEAN}
        \cup {[given |-> TRUE, subjectLine |-> FALSE,
               block |-> <<[id |-> i, definition |-> RootTag, children |-> <<>>]>>] : i \in NodeIds}

Bodies == TreeBodies \cup ProbeBodies \cup BareBodies

\* Scenario A: a root with identifier "not-a-uuid", the root definition, no children.
ScenarioA ==
    [given |-> TRUE, subjectLine |-> TRUE,
     block |-> <<[id |-> NotAUuid, definition |-> RootTag, children |-> <<>>]>>]

\* Scenario B: a correct root whose single child is a paragraph.
ScenarioB ==
    [given |-> TRUE, subjectLine |-> TRUE,
     block |-> <<[id |-> UuidLower, definition |-> RootTag,
                  children |-> <<[id |-> UuidLower, definition |-> "lightning/paragraph",
                                  children |-> <<>>]>>]>>]

\* root -> section -> column -> paragraph.
WellFormed ==
    [given |-> TRUE, subjectLine |-> TRUE,
     block |-> <<[id |-> UuidLower, definition |-> RootTag,
                  children |-> <<[id |-> UuidLower, definition |-> SectionTag,
                                  children |-> <<[id |-> UuidLower, definition |-> ColumnTag,
                                                  children |-> <<[id |-> UuidLower,
                                                                  definition |-> "lightning/paragraph",
                                                                  children |-> <<>>]>>]>>]>>]>>]

SampleBodies == {ScenarioA, ScenarioB, WellFormed}

\* args.identifier of get_cms_content: a content key, or an internal id.
Identifiers == {"MCWV26UCUUYNAFNP3Y53CVWGE23E", "20Y5e000000XZA1EAO"}

(***************************************************************************)
(* The client method a call runs.                                          *)
(***************************************************************************)
MethodOf(entry) ==
    CASE entry = "list_cms_content" -> "listContent"
      [] entry = "get_cms_content" -> "getContent"
      [] entry = "get_cms_types" -> "getContentTypes"
      [] entry = "get_api_resources" -> "getAvailableResources"
      [] entry = "create_cms_content" -> "createContent"
      [] entry = "update_cms_content" -> "updateContentBody"
      [] entry = "publish_cms_content" -> "publishContent"
      [] entry = "delete_cms_content" -> "deleteContent"
      [] entry \in DirectCalls -> entry
      [] OTHER -> NULL

VARIABLES
    now,              \* Date.now()
    keyFile,          \* the file at config.jwtPrivateKeyPath
    config,           \* this.config: which values are set
    accessToken,      \* Session
    tokenExpiry,
    instanceUrl,
    workspaceId,
    channelId,
    clearanceTokens,  \* the registry (a Set)
    timers,           \* pending setTimeout callbacks
    calls,            \* per slot: the call in flight, or the last one ended
    issued,           \* history: the tokens generateClearanceToken has returned
    passed,           \* history: how often each token passed the gate (up to 2)
    body,             \* the content body the caller sends (content_body, contentBody)
    validation,       \* history: what cms_validate_request last reported on it
    title             \* the title the caller sends: args.title, contentBody['sfdc_cms:title']

vars == <<now, keyFile, config, accessToken, tokenExpiry, instanceUrl, workspaceId,
          channelId, clearanceTokens, timers, calls, issued, passed, body, validation,
          title>>

session == <<accessToken, tokenExpiry, instanceUrl, workspaceId, channelId>>

registry == <<clearanceTokens, timers, issued, passed>>

caller == <<body, validation, title>>

Slots == DOMAIN calls

IdleCall ==
    [entry |-> NULL, ctype |-> NULL, tok |-> NoToken, ident |-> NULL, pc |-> "idle",
     reqs |-> <<>>, target |-> NULL, chans |-> <<>>, result |-> "none", err |-> "none",
     details |-> "none", cause |-> [message |-> "none", response |-> "none"], gate |-> "none",
     moved |-> FALSE, posted |-> <<>>, returned |-> <<>>]

InFlight(c) == calls[c].pc \in {"awaitToken", "awaitSpace", "awaitChannels", "awaitOp"}

NewCall(entry, ctype, tok) ==
    [IdleCall EXCEPT !.entry = entry, !.ctype = ctype, !.tok = tok]

\* A call ends: the handler returns a payload (or the method returns or throws).
Finish(rec, res, e) == [rec EXCEPT !.pc = "done", !.result = res, !.err = e]

\* A call issues an HTTP request and suspends until its response.
Issue(rec, kind, pc) == [rec EXCEPT !.pc = pc, !.reqs = Append(@, kind)]

(***************************************************************************)
(* Error messages, by class.                                               *)
(***************************************************************************)
ClearanceRequired == "CLEARANCE TOKEN REQUIRED"

ClearanceInvalid == "INVALID OR EXPIRED CLEARANCE TOKEN"

(***************************************************************************)
(* Errors thrown: the message, and error.response?.data ("body" when the   *)
(* error carries a response with a body, as axios's error for a non-2xx    *)
(* answer does, whose message names the status code).                      *)
(***************************************************************************)
Error(message) == [message |-> message, response |-> "none"]

NoError == Error("none")

StatusError == [message |-> "Request failed with status code 400", response |-> "body"]

\* What an HTTP request fails with: a non-2xx answer, or no answer at all.
HttpErrors == {StatusError, Error("Network Error")}

\* authenticate's catch: throw new Error(`Authentication failed: ${error.message}`).
Rethrown(error) == error

Wrapped(error) == Error("Authentication failed: " \o error.message)

\* A call is ended by `error`, thrown because of `cause`: the handler's catch
\* returns the message and the response body as an error-flagged payload (a
\* method called directly rejects with the error).
FailUnflagged(rec, cause, error) ==
    [Finish(rec, "success", error.message) EXCEPT !.cause = cause, !.details = error.response]

Fail(rec, cause, error) ==
    [Finish(rec, "error", error.message) EXCEPT !.cause = cause, !.details = error.response]

\* An error thrown inside authenticate's try.
AuthFail(rec, cause) == Fail(rec, cause, Wrapped(cause))

\* An error thrown anywhere else.
Throw(rec, cause) == Fail(rec, cause, cause)

AuthCauses ==
    {Error("key read"), Error("instanceUrl undefined"), Error("sign"),
     Error("Workspace name not configured"), Error("Workspace not found")} \cup HttpErrors

AuthErrors == {Wrapped(cause).message : cause \in AuthCauses}

(***************************************************************************)
(* ensureAuthenticated's test.                                             *)
(***************************************************************************)
NeedsAuthenticationAlways == TRUE

NeedsAuthenticationLate ==
    \/ accessToken = NULL
    \/ tokenExpiry = NoExpiry
    \/ now > tokenExpiry - SAFETY_MARGIN

NeedsAuthentication ==
    \/ accessToken = NULL
    \/ tokenExpiry = NoExpiry
    \/ now >= tokenExpiry - SAFETY_MARGIN

\* fs.readFileSync(this.config.jwtPrivateKeyPath) throws.
KeyReadFails == ~config["jwtPrivateKeyPath"] \/ keyFile = "unreadable"

(***************************************************************************)
(* What a method does once ensureAuthenticated has returned: the remote    *)
(* operations issue their request; authenticate and ensureAuthenticated    *)
(* called by themselves return.                                            *)
(***************************************************************************)
\* The path the operation's request is issued against: getContent's detail fetch
\* goes to /connect/cms/contents/${identifier}.
RequestTargetResolved(rec) ==
    IF MethodOf(rec.entry) = "getContent" THEN "resolved contentId" ELSE NULL

RequestTarget(rec) ==
    IF MethodOf(rec.entry) = "getContent" THEN rec.ident ELSE NULL

(***************************************************************************)
(* createContent's payload.contentBody.  A title is NULL when the key is   *)
(* missing (undefined), or a string, which may be empty; undefined and the *)
(* empty string are the falsy ones.                                        *)
(***************************************************************************)
NoTitle == [argument |-> NULL, inBody |-> NULL]

Titles ==
    [argument : {NULL, "", "Title argument"}, inBody : {NULL, "", "Body title"}]

Falsy(value) == value \in {NULL, ""}

EmptyMap == [subjectLine |-> FALSE, block |-> <<>>, title |-> NULL]

\* contentData.contentBody || {}
ContentBodyOrEmpty ==
    IF body.given
    THEN [subjectLine |-> body.subjectLine, block |-> body.block, title |-> title.inBody]
    ELSE EmptyMap

PayloadUntitled(type) == ContentBodyOrEmpty

Payload(type) ==
    IF type = "sfdc_cms__email" /\ ~Falsy(title.argument) /\ Falsy(ContentBodyOrEmpty.title)
    THEN [ContentBodyOrEmpty EXCEPT !.title = title.argument]
    ELSE ContentBodyOrEmpty

Proceed(rec) ==
    IF rec.entry \in {"authenticate", "ensureAuthenticated"}
    THEN Finish(rec, "success", "none")
    ELSE [Issue(rec, "op", "awaitOp") EXCEPT
            !.target = RequestTarget(rec),
            !.posted = IF MethodOf(rec.entry) = "createContent"
                       THEN << Payload(rec.ctype) >> ELSE <<>>]

(***************************************************************************)
(* authenticate up to its first await: read the key, pick the login        *)
(* endpoint from this.instanceUrl, sign the assertion, post it.            *)
(***************************************************************************)
BeginAuthenticateKeyLate(rec) ==
    IF instanceUrl = NULL
    THEN AuthFail(rec, Error("instanceUrl undefined"))
    ELSE Issue(rec, "token", "awaitToken")

BeginAuthenticate(rec) ==
    IF KeyReadFails
    THEN AuthFail(rec, Error("key read"))
    ELSE IF instanceUrl = NULL
    THEN AuthFail(rec, Error("instanceUrl undefined"))
    ELSE IF keyFile = "malformed"
    THEN AuthFail(rec, Error("sign"))
    ELSE Issue(rec, "token", "awaitToken")

\* A client method up to its first await.
BeginMethod(rec) ==
    IF rec.entry = "authenticate" \/ NeedsAuthentication
    THEN BeginAuthenticate(rec)
    ELSE Proceed(rec)

(***************************************************************************)
(* The clearance gate of create_cms_content.                               *)
(***************************************************************************)
GateAppliesToAll(ctype) == TRUE

GateApplies(ctype) == ctype = "sfdc_cms__email"

TokenRegisteredUnchecked(tok) == TRUE

\* A gate that also wants the last validation report to have been valid.
TokenRegisteredAndValidated(tok) ==
    tok \in clearanceTokens /\ (validation = <<>> \/ validation[1].valid)

TokenRegistered(tok) == tok \in clearanceTokens

RegistryAfterUseKept(tok) == clearanceTokens

RegistryAfterUse(tok) == clearanceTokens \ {tok}

\* generateClearanceToken's setTimeout.
TimerDelaySeconds == 30 * 60

TimerDelay == CLEARANCE_WINDOW

TimerFor(t) == [token |-> t, start |-> now, delay |-> TimerDelay]

TimerDue(tm) == now >= tm.start + tm.delay

RegistryAfterTimerCleared(t) == {}

RegistryAfterTimerKept(t) == clearanceTokens

RegistryAfterTimer(t) == clearanceTokens \ {t}

Bump(n) == IF n < 2 THEN n + 1 ELSE n

Init ==
    /\ now = 0
    /\ keyFile \in KeyFileStates
    /\ config \in Configs
    /\ accessToken = NULL
    /\ tokenExpiry = NoExpiry
    /\ instanceUrl = IF config["instanceUrl"] THEN "cfgUrl" ELSE NULL
    /\ workspaceId = NULL
    /\ channelId = NULL
    /\ clearanceTokens = {}
    /\ timers = {}
    /\ calls = [c \in SerialSlots |-> IdleCall]
    /\ issued = {}
    /\ passed = [t \in Tokens |-> 0]
    /\ body = NoBody
    /\ validation = <<>>
    /\ title = NoTitle

\* A call that has ended is handed back before anything else happens.
NoneDone == \A c \in Slots : calls[c].pc # "done"

\* Date.now() moves on, also for the calls in flight.
Tick ==
    /\ NoneDone
    /\ \E t \in Instants : t > now /\ now' = t
    /\ calls' = [c \in Slots |-> IF InFlight(c) THEN [calls[c] EXCEPT !.moved = TRUE] ELSE calls[c]]
    /\ UNCHANGED <<keyFile, config, caller, session, registry>>

\* The key file is removed or made unreadable.
KeyFileChange ==
    /\ NoneDone
    /\ keyFile # "unreadable"
    /\ keyFile' = "unreadable"
    /\ UNCHANGED <<now, config, caller, session, registry, calls>>

\* A token's expiry callback runs.
TimerFire ==
    /\ NoneDone
    /\ \E tm \in timers :
        /\ TimerDue(tm)
        /\ clearanceTokens' = RegistryAfterTimer(tm.token)
        /\ timers' = timers \ {tm}
    /\ UNCHANGED <<now, keyFile, config, caller, session, calls, issued, passed>>

\* The transport hands over a call only when slot c is free; with Serial, only
\* when no other call is in flight.
CanStart(c, serial) ==
    /\ NoneDone
    /\ ~InFlight(c)
    /\ \A d \in Slots : d < c => InFlight(d)
    /\ serial => \A d \in Slots : ~InFlight(d)

LocalCall(c) ==
    /\ \E tool \in LocalTools : calls' = [calls EXCEPT ![c] = Finish(NewCall(tool, NULL, NoToken), "success", "none")]
    /\ UNCHANGED <<now, keyFile, config, caller, session, registry>>

UnknownTool(c) ==
    /\ calls' = [calls EXCEPT ![c] = Throw(NewCall("unknown_tool", NULL, NoToken), Error("Unknown tool"))]
    /\ UNCHANGED <<now, keyFile, config, caller, session, registry>>

\* cms_validate_request: validateEmailStructure(content_body) for 'email'.
ValidateRequest(c) ==
    /\ \E content_type \in {"email", "news"} :
        LET rec == NewCall("cms_validate_request", content_type, NoToken) IN
        IF content_type = "email"
        THEN IF ~body.given
             \* content_body missing: contentBody.subjectLine throws
             THEN /\ calls' = [calls EXCEPT ![c] = Throw(rec, Error("TypeError"))]
                  /\ UNCHANGED validation
             ELSE /\ validation' = << validateEmailStructure(body) >>
                  /\ calls' = [calls EXCEPT ![c] = Finish(rec, "success", "none")]
        ELSE /\ calls' = [calls EXCEPT ![c] = Finish(rec, "success", "none")]
             /\ UNCHANGED validation
    /\ UNCHANGED <<now, keyFile, config, body, title, session, registry>>

\* cms_preflight_check: generateClearanceToken, then the reading list.
Preflight(c) ==
    /\ \/ \E t \in Tokens :
            /\ t \notin issued
            /\ \A u \in Tokens : u < t => u \in issued
            /\ clearanceTokens' = clearanceTokens \cup {t}
            /\ timers' = timers \cup {TimerFor(t)}
            /\ issued' = issued \cup {t}
            /\ \/ calls' = [calls EXCEPT ![c] = Finish(NewCall("cms_preflight_check", NULL, t), "success", "none")]
               \* args.operation_type missing: toUpperCase throws after the token was generated
               \/ calls' = [calls EXCEPT ![c] = Throw(NewCall("cms_preflight_check", NULL, NoToken), Error("TypeError"))]
            /\ UNCHANGED passed
       \* no arguments at all: destructuring args throws before a token is generated
       \/ /\ calls' = [calls EXCEPT ![c] = Throw(NewCall("cms_preflight_check", NULL, NoToken), Error("TypeError"))]
          /\ UNCHANGED registry
    /\ UNCHANGED <<now, keyFile, config, caller, session>>

\* create_cms_content: the gate, then cmsClient.createContent.
CreateContent(c) ==
    /\ \E ctype \in ContentTypes, tok \in Tokens \cup {NoToken} :
        LET rec == NewCall("create_cms_content", ctype, tok) IN
        IF GateApplies(ctype)
        THEN IF tok = NoToken
             THEN /\ calls' = [calls EXCEPT ![c] = Finish([rec EXCEPT !.gate = "rejected"], "error", ClearanceRequired)]
                  /\ UNCHANGED registry
             ELSE IF ~TokenRegistered(tok)
             THEN /\ calls' = [calls EXCEPT ![c] = Finish([rec EXCEPT !.gate = "rejected"], "error", ClearanceInvalid)]
                  /\ UNCHANGED registry
             ELSE /\ clearanceTokens' = RegistryAfterUse(tok)
                  /\ passed' = [passed EXCEPT ![tok] = Bump(@)]
                  /\ calls' = [calls EXCEPT ![c] = BeginMethod([rec EXCEPT !.gate = "passed"])]
                  /\ UNCHANGED <<timers, issued>>
        ELSE /\ calls' = [calls EXCEPT ![c] = BeginMethod([rec EXCEPT !.gate = "bypassed"])]
             /\ UNCHANGED registry
    /\ UNCHANGED <<now, keyFile, config, caller, session>>

\* get_cms_content: cmsClient.getContent(args.identifier).
GetContent(c) ==
    /\ \E identifier \in Identifiers :
        calls' = [calls EXCEPT ![c] =
                    BeginMethod([NewCall("get_cms_content", NULL, NoToken) EXCEPT !.ident = identifier])]
    /\ UNCHANGED <<now, keyFile, config, caller, session, registry>>

\* Every other remote tool, and the client methods called directly.
RemoteCall(c) ==
    /\ \E entry \in RemoteTools \cup DirectCalls :
        calls' = [calls EXCEPT ![c] = BeginMethod(NewCall(entry, NULL, NoToken))]
    /\ UNCHANGED <<now, keyFile, config, caller, session, registry>>

StartCall(c) ==
    \/ LocalCall(c)
    \/ UnknownTool(c)
    \/ ValidateRequest(c)
    \/ Preflight(c)
    \/ CreateContent(c)
    \/ GetContent(c)
    \/ RemoteCall(c)

(***************************************************************************)
(* The token endpoint answers authenticate's POST.                         *)
(***************************************************************************)
ExpiryAfterExchange == now + TOKEN_LIFETIME

AfterExchangeResolving(rec) ==
    IF ~config["workspaceName"]
    THEN AuthFail(rec, Error("Workspace name not configured"))
    ELSE Issue(rec, "space", "awaitSpace")

\* authenticate after the token response: the workspace guard.
AfterExchange(rec) ==
    IF workspaceId = NULL
    THEN IF ~config["workspaceName"]
         THEN AuthFail(rec, Error("Workspace name not configured"))
         ELSE Issue(rec, "space", "awaitSpace")
    ELSE Proceed(rec)

TokenResponse(c) ==
    /\ NoneDone
    /\ calls[c].pc = "awaitToken"
    /\ \/ /\ \E e \in HttpErrors : calls' = [calls EXCEPT ![c] = AuthFail(@, e)]
          /\ UNCHANGED session
       \/ /\ \E at \in AccessTokens : accessToken' = at
          /\ instanceUrl' = "instUrl"
          /\ tokenExpiry' = ExpiryAfterExchange
          /\ calls' = [calls EXCEPT ![c] = AfterExchange(@)]
          /\ UNCHANGED <<workspaceId, channelId>>
    /\ UNCHANGED <<now, keyFile, config, caller, registry>>

\* getWorkspaceId: the ManagedContentSpace query answers.
SpaceResponse(c) ==
    /\ NoneDone
    /\ calls[c].pc = "awaitSpace"
    /\ \/ /\ \E e \in HttpErrors : calls' = [calls EXCEPT ![c] = AuthFail(@, e)]
          /\ UNCHANGED session
       \/ /\ calls' = [calls EXCEPT ![c] = AuthFail(@, Error("Workspace not found"))]
          /\ UNCHANGED session
       \/ /\ \E id \in WorkspaceIds : workspaceId' = id
          /\ calls' = [calls EXCEPT ![c] = Issue(@, "channels", "awaitChannels")]
          /\ UNCHANGED <<accessToken, tokenExpiry, instanceUrl, channelId>>
    /\ UNCHANGED <<now, keyFile, config, caller, registry>>

(***************************************************************************)
(* getWorkspaceId: the delivery-channels lookup answers.                   *)
(***************************************************************************)
ChannelLists ==
    { <<>>,
      << [channelId |-> "ch1", managedContentSpaceId |-> "ws1"] >>,
      << [channelId |-> "ch1", managedContentSpaceId |-> "ws9"] >>,
      << [channelId |-> "ch1", managedContentSpaceId |-> "ws9"],
         [channelId |-> "ch2", managedContentSpaceId |-> "ws1"] >> }

\* What the lookup brought: a response with its channels, or a failure.
ChannelAnswers ==
    {[ok |-> TRUE, channels |-> channels] : channels \in ChannelLists}
        \cup {[ok |-> FALSE, channels |-> <<>>]}

ChannelFromFirst(channels) ==
    IF Len(channels) > 0 THEN channels[1].channelId ELSE workspaceId

ChannelFrom(channels) ==
    IF Len(channels) > 0
    THEN IF \E i \in 1..Len(channels) : channels[i].managedContentSpaceId = workspaceId
         THEN LET i == CHOOSE i \in 1..Len(channels) :
                        /\ channels[i].managedContentSpaceId = workspaceId
                        /\ \A j \in 1..(i - 1) : channels[j].managedContentSpaceId # workspaceId
              IN channels[i].channelId
         ELSE channels[1].channelId
    ELSE workspaceId

ChannelsResponse(c) ==
    /\ NoneDone
    /\ calls[c].pc = "awaitChannels"
    /\ \E answer \in ChannelAnswers :
        /\ channelId' = IF answer.ok THEN ChannelFrom(answer.channels) ELSE workspaceId
        /\ calls' = [calls EXCEPT ![c] = [Proceed(@) EXCEPT !.chans = <<answer>>]]
    /\ UNCHANGED <<now, keyFile, config, caller, accessToken, tokenExpiry, instanceUrl, workspaceId, registry>>

(***************************************************************************)
(* What a 2xx answer carries as response.data: a JSON object with or       *)
(* without the keys items and managedContentItems (each an array, empty or *)
(* not), an empty body (axios gives the empty string), or the JSON null.   *)
(***************************************************************************)
ItemLists == {"absent", "empty", "some"}

ResponseData ==
    [kind : {"object"}, items : ItemLists, managedContentItems : ItemLists]
        \cup [kind : {"empty string", "null"}, items : {"absent"}, managedContentItems : {"absent"}]

\* A JavaScript value returned: an array of so many items, or another value.
Array(list) == [kind |-> "array", size |-> IF list = "some" THEN 1 ELSE 0]

Whole(data) == [kind |-> data.kind, size |-> 0]

\* listContent's return: response.data.items || response.data.managedContentItems
\*                       || response.data || []  (an array, even an empty one, is truthy).
listContent(data) ==
    IF data.items # "absent" THEN Array(data.items)
    ELSE IF data.managedContentItems # "absent" THEN Array(data.managedContentItems)
    ELSE IF data.kind = "object" THEN Whole(data)
    ELSE Array("empty")

\* searchContent's return: response.data.items || [].
searchContent(data) ==
    IF data.items # "absent" THEN Array(data.items) ELSE Array("empty")

\* The answers told apart for a call: every shape where the method looks into
\* response.data, one where it hands response.data on as it is.
AnswersTo(rec) ==
    IF MethodOf(rec.entry) \in {"listContent", "searchContent"}
    THEN ResponseData
    ELSE {[kind |-> "object", items |-> "absent", managedContentItems |-> "absent"]}

\* The method's code after its request was answered with `data`.
Answered(rec, data) ==
    IF MethodOf(rec.entry) \in {"listContent", "searchContent"}
    THEN IF data.kind = "null"
         \* response.data.items on null throws
         THEN Throw(rec, Error("TypeError"))
         ELSE [Finish(rec, "success", "none") EXCEPT
                 !.returned = << IF MethodOf(rec.entry) = "listContent"
                                 THEN listContent(data) ELSE searchContent(data) >>]
    ELSE Finish(rec, "success", "none")

OpResponseInvalidating(c) ==
    /\ NoneDone
    /\ calls[c].pc = "awaitOp"
    /\ \/ /\ \E data \in AnswersTo(calls[c]) : calls' = [calls EXCEPT ![c] = Answered(@, data)]
          /\ UNCHANGED session
       \/ /\ \E e \in HttpErrors : calls' = [calls EXCEPT ![c] = Throw(@, e)]
          /\ accessToken' = NULL
          /\ UNCHANGED <<tokenExpiry, instanceUrl, workspaceId, channelId>>
    /\ UNCHANGED <<now, keyFile, config, caller, registry>>

\* The remote operation's own request answers.
OpResponse(c) ==
    /\ NoneDone
    /\ calls[c].pc = "awaitOp"
    /\ \/ \E data \in AnswersTo(calls[c]) : calls' = [calls EXCEPT ![c] = Answered(@, data)]
       \/ \E e \in HttpErrors : calls' = [calls EXCEPT ![c] = Throw(@, e)]
    /\ UNCHANGED <<now, keyFile, config, caller, session, registry>>

\* The transport sends the payload of a call that has ended; its slot is free.
Return(c) ==
    /\ calls[c].pc = "done"
    /\ calls' = [calls EXCEPT ![c] = IdleCall]
    /\ UNCHANGED <<now, keyFile, config, caller, session, registry>>

Resume(c) ==
    \/ TokenResponse(c)
    \/ SpaceResponse(c)
    \/ ChannelsResponse(c)
    \/ OpResponse(c)

(***************************************************************************)
(* Spec: the transport hands over one call at a time (spec, section 5).    *)
(***************************************************************************)
Next ==
    \/ Tick
    \/ KeyFileChange
    \/ TimerFire
    \/ \E c \in Slots : CanStart(c, TRUE) /\ StartCall(c)
    \/ \E c \in Slots : Resume(c)
    \/ \E c \in Slots : Return(c)

Spec == Init /\ [][Next]_vars

(***************************************************************************)
(* SpecValidator: cms_validate_request put to every body of Bodies.        *)
(***************************************************************************)
InitValidator ==
    /\ now = 0
    /\ keyFile = "valid"
    /\ config = [k \in ConfigKeys |-> TRUE]
    /\ accessToken = NULL
    /\ tokenExpiry = NoExpiry
    /\ instanceUrl = "cfgUrl"
    /\ workspaceId = NULL
    /\ channelId = NULL
    /\ clearanceTokens = {}
    /\ timers = {}
    /\ calls = [c \in SerialSlots |-> IdleCall]
    /\ issued = {}
    /\ passed = [t \in Tokens |-> 0]
    /\ body \in Bodies
    /\ validation = <<>>
    /\ title = NoTitle

NextValidator ==
    \/ \E c \in Slots : CanStart(c, TRUE) /\ ValidateRequest(c)
    \/ \E c \in Slots : Return(c)

SpecValidator == InitValidator /\ [][NextValidator]_vars

(***************************************************************************)
(* SpecAdvisory: the workflow of an email creation (preflight, validate,   *)
(* create) on each of the sample bodies, with the configuration complete   *)
(* and the key readable.                                                   *)
(***************************************************************************)
InitAdvisory ==
    /\ now = 0
    /\ keyFile = "valid"
    /\ config = [k \in ConfigKeys |-> TRUE]
    /\ accessToken = NULL
    /\ tokenExpiry = NoExpiry
    /\ instanceUrl = "cfgUrl"
    /\ workspaceId = NULL
    /\ channelId = NULL
    /\ clearanceTokens = {}
    /\ timers = {}
    /\ calls = [c \in SerialSlots |-> IdleCall]
    /\ issued = {}
    /\ passed = [t \in Tokens |-> 0]
    /\ body \in SampleBodies
    /\ validation = <<>>
    /\ title = NoTitle

NextAdvisory ==
    \/ \E c \in Slots : CanStart(c, TRUE) /\ ValidateRequest(c)
    \/ \E c \in Slots : CanStart(c, TRUE) /\ Preflight(c)
    \/ \E c \in Slots : CanStart(c, TRUE) /\ CreateContent(c)
    \/ \E c \in Slots : Resume(c)
    \/ \E c \in Slots : Return(c)

SpecAdvisory == InitAdvisory /\ [][NextAdvisory]_vars

(***************************************************************************)
(* SpecPayload: email and other creations for every combination of a title *)
(* argument and a title in the body, with and without a content body.      *)
(***************************************************************************)
InitPayload ==
    /\ now = 0
    /\ keyFile = "valid"
    /\ config = [k \in ConfigKeys |-> TRUE]
    /\ accessToken = NULL
    /\ tokenExpiry = NoExpiry
    /\ instanceUrl = "cfgUrl"
    /\ workspaceId = NULL
    /\ channelId = NULL
    /\ clearanceTokens = {}
    /\ timers = {}
    /\ calls = [c \in SerialSlots |-> IdleCall]
    /\ issued = {}
    /\ passed = [t \in Tokens |-> 0]
    /\ body \in {NoBody, WellFormed}
    /\ validation = <<>>
    /\ title \in Titles
    \* a title in the body takes a body
    /\ ~body.given => title.inBody = NULL

NextPayload ==
    \/ \E c \in Slots : CanStart(c, TRUE) /\ Preflight(c)
    \/ \E c \in Slots : CanStart(c, TRUE) /\ CreateContent(c)
    \/ \E c \in Slots : Resume(c)
    \/ \E c \in Slots : Return(c)

SpecPayload == InitPayload /\ [][NextPayload]_vars

(***************************************************************************)
(* SpecOverlap: the handler is an async function, so a transport that does *)
(* not wait for one call's payload before it hands over the next lets the  *)
(* calls overlap at their awaits.  Preflight checks and gated creations,   *)
(* with the configuration complete and the key readable.                   *)
(***************************************************************************)
InitOverlap ==
    /\ now = 0
    /\ keyFile = "valid"
    /\ config = [k \in ConfigKeys |-> TRUE]
    /\ accessToken = NULL
    /\ tokenExpiry = NoExpiry
    /\ instanceUrl = "cfgUrl"
    /\ workspaceId = NULL
    /\ channelId = NULL
    /\ clearanceTokens = {}
    /\ timers = {}
    /\ calls = [c \in OverlapSlots |-> IdleCall]
    /\ issued = {}
    /\ passed = [t \in Tokens |-> 0]
    /\ body = NoBody
    /\ validation = <<>>
    /\ title = NoTitle

NextOverlap ==
    \/ \E c \in Slots : CanStart(c, FALSE) /\ Preflight(c)
    \/ \E c \in Slots : CanStart(c, FALSE) /\ CreateContent(c) /\ GateApplies(calls'[c].ctype)
    \/ \E c \in Slots : Resume(c)
    \/ \E c \in Slots : Return(c)

SpecOverlap == InitOverlap /\ [][NextOverlap]_vars

(***************************************************************************)
(* SpecLive: preflight checks and gated creations over time, with the      *)
(* scheduling the runtime gives: the clock moves on, a timer that is due   *)
(* has its callback run between two runs of the handler, and a payload     *)
(* that is ready is sent.  Tokens are issued only while the model's clock  *)
(* still has an instant at which their timers are due.                     *)
(***************************************************************************)
Horizon == CHOOSE t \in Instants : \A u \in Instants : u <= t

InitLive == InitOverlap

NextLive ==
    \/ Tick
    \/ TimerFire
    \/ \E c \in Slots : CanStart(c, TRUE) /\ now + TimerDelay <= Horizon /\ Preflight(c)
    \/ \E c \in Slots : CanStart(c, TRUE) /\ CreateContent(c) /\ GateApplies(calls'[c].ctype)
    \/ \E c \in Slots : Resume(c)
    \/ \E c \in Slots : Return(c)

SpecLive ==
    /\ InitLive
    /\ [][NextLive]_vars
    /\ SF_vars(Tick)
    /\ SF_vars(TimerFire)
    /\ \A c \in OverlapSlots : WF_vars(Return(c))

(***************************************************************************)
(* Vocabulary of the properties.                                           *)
(***************************************************************************)
\* This step hands slot c a new call.
Started(c) == calls[c].pc = "idle" /\ calls'[c].pc # "idle"

\* This step starts a create_cms_content of type sfdc_cms__email presenting t.
StartsEmailCreate(c, t) ==
    /\ Started(c)
    /\ calls'[c].entry = "create_cms_content"
    /\ calls'[c].ctype = "sfdc_cms__email"
    /\ calls'[c].tok = t

TimerPending(t) == \E tm \in timers : tm.token = t

\* The token's timer has fired.
Expired(t) == t \in issued /\ ~TimerPending(t)

Ended(c) == calls[c].pc = "done"

EmailCreate(c) == calls[c].entry = "create_cms_content" /\ calls[c].ctype = "sfdc_cms__email"

\* How many token exchanges a call has requested.
Exchanges(reqs) == Cardinality({i \in DOMAIN reqs : reqs[i] = "token"})

\* create_cms_content got past the gate and into cmsClient.createContent.
EnteredCreate(rec) ==
    /\ rec.err \notin {ClearanceRequired, ClearanceInvalid}
    /\ \/ rec.pc \in {"awaitToken", "awaitOp"}
       \/ rec.pc = "done" /\ rec.err \in AuthErrors

(***************************************************************************)
(* C1. Single use: an email create presenting an issued token that has     *)
(* neither been used nor expired passes the gate; once a create has passed *)
(* the gate with a token, every later email create presenting that token   *)
(* is rejected as invalid or expired; no token passes the gate twice.      *)
(***************************************************************************)
C1_SingleUse ==
    [][\A c \in Slots, t \in Tokens :
          /\ StartsEmailCreate(c, t) /\ t \in issued /\ passed[t] = 0 /\ TimerPending(t)
                => calls'[c].gate = "passed" /\ passed'[t] = 1
          /\ StartsEmailCreate(c, t) /\ passed[t] > 0
                => /\ calls'[c].gate = "rejected"
                   /\ calls'[c].pc = "done"
                   /\ calls'[c].result = "error"
                   /\ calls'[c].err = ClearanceInvalid
          /\ passed'[t] <= 1]_vars

\* A second email create presenting a used token, whose timer is still pending, has been rejected.
C1_Witness ==
    \E c \in Slots : /\ Ended(c) /\ EmailCreate(c)
                     /\ calls[c].tok \in Tokens
                     /\ calls[c].gate = "rejected"
                     /\ passed[calls[c].tok] = 1
                     /\ TimerPending(calls[c].tok)

(***************************************************************************)
(* C2. Expiry: a token's timer removes it from the registry, and never     *)
(* before CLEARANCE_WINDOW (30 minutes) has elapsed since the token was    *)
(* issued; every email create presenting a token whose timer has fired is  *)
(* rejected.                                                               *)
(***************************************************************************)
C2_Expiry ==
    [][/\ \A tm \in timers :
            tm \notin timers' => /\ now >= tm.start + CLEARANCE_WINDOW
                                 /\ tm.token \notin clearanceTokens'
       /\ \A t \in Tokens : t \in issued' \ issued
            => \E tm \in timers' : tm.token = t /\ tm.start = now
       /\ \A c \in Slots, t \in Tokens :
            StartsEmailCreate(c, t) /\ Expired(t)
                => /\ calls'[c].gate = "rejected"
                   /\ calls'[c].pc = "done"
                   /\ calls'[c].result = "error"
                   /\ calls'[c].err = ClearanceInvalid]_vars

\* An email create presenting a never-used token whose timer has fired has been rejected.
C2_Witness ==
    \E c \in Slots : /\ Ended(c) /\ EmailCreate(c)
                     /\ calls[c].tok \in Tokens
                     /\ calls[c].gate = "rejected"
                     /\ Expired(calls[c].tok)
                     /\ passed[calls[c].tok] = 0

(***************************************************************************)
(* C3. Token state machine: the registry holds exactly the issued tokens   *)
(* that have neither passed the gate nor had their timer fire; a token     *)
(* changes state only none -> Issued, Issued -> Consumed or Issued ->      *)
(* Expired; one that has left the registry never re-enters it; the timer   *)
(* of a consumed token leaves the registry as it is.                       *)
(***************************************************************************)
TokenState(t) ==
    IF t \notin issued THEN "none"
    ELSE IF t \in clearanceTokens THEN "Issued"
    ELSE IF passed[t] > 0 THEN "Consumed"
    ELSE "Expired"

RegistryExact == clearanceTokens = {t \in issued : passed[t] = 0 /\ TimerPending(t)}

C3_TokenStateMachine ==
    [][/\ RegistryExact'
       /\ \A t \in Tokens :
            /\ TokenState(t)' # TokenState(t)
                 => <<TokenState(t), TokenState(t)'>> \in
                        {<<"none", "Issued">>, <<"Issued", "Consumed">>, <<"Issued", "Expired">>}
            /\ t \in issued /\ t \notin clearanceTokens => t \notin clearanceTokens'
       /\ \A tm \in timers :
            tm \notin timers' /\ passed[tm.token] > 0 => clearanceTokens' = clearanceTokens]_vars

\* The timer of a consumed token has fired while another token is still registered.
C3_Witness ==
    \E t, u \in Tokens : /\ passed[t] = 1 /\ Expired(t)
                         /\ u # t /\ u \in clearanceTokens

(***************************************************************************)
(* C4. Rejected gate: an email create whose clearance_token is missing or  *)
(* is not in the registry ends at once with an error-flagged result, has   *)
(* issued no request (no token exchange, no create), and leaves the        *)
(* registry and the Session unchanged.                                     *)
(***************************************************************************)
C4_RejectedGate ==
    [][\A c \in Slots, t \in Tokens \cup {NoToken} :
          StartsEmailCreate(c, t) /\ t \notin clearanceTokens
              => /\ calls'[c].pc = "done"
                 /\ calls'[c].result = "error"
                 /\ calls'[c].err = (IF t = NoToken THEN ClearanceRequired ELSE ClearanceInvalid)
                 /\ calls'[c].reqs = <<>>
                 /\ UNCHANGED registry
                 /\ UNCHANGED session]_vars

\* An email create without a token has been rejected while a token is registered
\* and the Session is authenticated.
C4_Witness ==
    \E c \in Slots : /\ Ended(c) /\ EmailCreate(c)
                     /\ calls[c].tok = NoToken
                     /\ calls[c].err = ClearanceRequired
                     /\ clearanceTokens # {}
                     /\ accessToken # NULL

(***************************************************************************)
(* C5. The gate applies to the email type only: a create of any other type *)
(* enters cmsClient.createContent whatever its clearance_token (absent,    *)
(* unregistered or registered) and leaves the registry unchanged, so a     *)
(* registered token presented with it stays registered.                    *)
(***************************************************************************)
C5_GateEmailOnly ==
    [][\A c \in Slots :
          /\ Started(c)
          /\ calls'[c].entry = "create_cms_content"
          /\ calls'[c].ctype # "sfdc_cms__email"
          => /\ EnteredCreate(calls'[c])
             /\ calls'[c].gate = "bypassed"
             /\ UNCHANGED registry]_vars

\* A create of another type presenting a registered token awaits its create request,
\* and the token is still registered and unused.
C5_Witness ==
    \E c \in Slots : /\ calls[c].entry = "create_cms_content"
                     /\ calls[c].ctype = "sfdc_cms__news"
                     /\ calls[c].pc = "awaitOp"
                     /\ calls[c].tok \in clearanceTokens
                     /\ passed[calls[c].tok] = 0

(***************************************************************************)
(* C6, as claimed: a gated create that ends in an error leaves the token   *)
(* it presented registered (its timer not having fired).                   *)
(***************************************************************************)
C6_TokenKeptOnFailure ==
    \A c \in Slots :
        /\ Ended(c) /\ EmailCreate(c)
        /\ calls[c].gate = "passed"
        /\ calls[c].result = "error"
        /\ TimerPending(calls[c].tok)
        => calls[c].tok \in clearanceTokens

(***************************************************************************)
(* C6, amended: the token is removed when the gate is passed, before the   *)
(* creation is attempted; from then on, however the call ends, the token   *)
(* is not registered.                                                      *)
(***************************************************************************)
C6_TokenConsumedAtGate ==
    \A c \in Slots :
        calls[c].gate = "passed"
            => /\ calls[c].tok \notin clearanceTokens
               /\ passed[calls[c].tok] = 1

\* A gated create has ended in an error after passing the gate, its token's timer still pending.
C6_Witness ==
    \E c \in Slots : /\ Ended(c) /\ EmailCreate(c)
                     /\ calls[c].gate = "passed"
                     /\ calls[c].result = "error"
                     /\ TimerPending(calls[c].tok)

(***************************************************************************)
(* C7. Idempotence of ensureAuthenticated: when an ensureAuthenticated     *)
(* that had to authenticate has returned normally and the clock has not    *)
(* moved since it began, it has made exactly one token exchange, and an    *)
(* ensureAuthenticated called now returns at once without any request.     *)
(***************************************************************************)
C7_EnsureIdempotent ==
    \A c \in Slots :
        /\ Ended(c)
        /\ calls[c].entry = "ensureAuthenticated"
        /\ calls[c].result = "success"
        /\ ~calls[c].moved
        /\ calls[c].reqs # <<>>
        => LET second == BeginMethod(NewCall("ensureAuthenticated", NULL, NoToken))
           IN /\ second.pc = "done"
              /\ second.result = "success"
              /\ second.reqs = <<>>
              /\ Exchanges(calls[c].reqs) + Exchanges(second.reqs) = 1

\* ensureAuthenticated has returned from a first authentication (token exchange,
\* workspace and channel lookups) at the instant it began.
C7_Witness ==
    \E c \in Slots : /\ Ended(c)
                     /\ calls[c].entry = "ensureAuthenticated"
                     /\ calls[c].result = "success"
                     /\ ~calls[c].moved
                     /\ calls[c].reqs = <<"token", "space", "channels">>

(***************************************************************************)
(* C8, as claimed: whenever a remote operation issues its request, and     *)
(* whenever ensureAuthenticated returns normally, the Session holds a      *)
(* token and now < tokenExpiry - SAFETY_MARGIN.                            *)
(***************************************************************************)
SessionFresh == accessToken # NULL /\ tokenExpiry # NoExpiry /\ now < tokenExpiry - SAFETY_MARGIN

C8_FreshBeforeRequest ==
    [][\A c \in Slots :
          /\ \/ /\ calls'[c].pc = "awaitOp"
                /\ calls[c].pc # "awaitOp"
             \/ /\ calls'[c].pc = "done" /\ calls[c].pc # "done"
                /\ calls'[c].entry = "ensureAuthenticated"
                /\ calls'[c].result = "success"
          => SessionFresh']_vars

(***************************************************************************)
(* C9. Scenario E: authenticate with an unreadable (or unset) private-key  *)
(* path fails at once, has issued no request (no token exchange, no        *)
(* workspace query), and leaves every Session field unchanged.             *)
(***************************************************************************)
C9_KeyUnreadable ==
    [][\A c \in Slots :
          /\ Started(c)
          /\ MethodOf(calls'[c].entry) # NULL
          /\ calls'[c].gate # "rejected"
          /\ calls'[c].entry = "authenticate" \/ NeedsAuthentication
          /\ keyFile = "unreadable" \/ ~config["jwtPrivateKeyPath"]
          => /\ calls'[c].pc = "done"
             /\ calls'[c].result = "error"
             /\ calls'[c].err = "Authentication failed: key read"
             /\ calls'[c].reqs = <<>>
             /\ UNCHANGED session]_vars

\* authenticate has failed on the key read with a Session that holds a token,
\* a workspace id and a channel id.
C9_Witness ==
    \E c \in Slots : /\ Ended(c)
                     /\ calls[c].entry = "authenticate"
                     /\ calls[c].err = "Authentication failed: key read"
                     /\ keyFile = "unreadable"
                     /\ accessToken # NULL
                     /\ workspaceId # NULL
                     /\ channelId # NULL

(***************************************************************************)
(* C10, as claimed: with a required configuration value missing, no call   *)
(* ever issues a request, and a call that runs a client method ends in an  *)
(* error; in particular "Workspace name not configured" is reported with   *)
(* no token exchange requested.                                            *)
(***************************************************************************)
C10_ConfigFailsFast ==
    \A c \in Slots :
        (\E k \in ConfigKeys : ~config[k])
            => /\ calls[c].reqs = <<>>
               /\ Ended(c) /\ MethodOf(calls[c].entry) # NULL /\ calls[c].gate # "rejected"
                     => calls[c].result = "error"

(***************************************************************************)
(* C11, as claimed: getContent looks the identifier up as a content key    *)
(* before it issues the detail fetch.                                      *)
(***************************************************************************)
GetContentCall(c) == calls[c].entry = "get_cms_content"

C11_KeyLookupFirst ==
    \A c \in Slots :
        GetContentCall(c) /\ calls[c].pc = "awaitOp"
            => \E i \in DOMAIN calls[c].reqs : calls[c].reqs[i] = "lookup"

(***************************************************************************)
(* C11, amended: getContent makes no key lookup; once the Session is       *)
(* authenticated it issues one request, the detail fetch, against the      *)
(* literal input, whether that is a content key or an internal id.         *)
(***************************************************************************)
C11_DetailFetchLiteral ==
    \A c \in Slots :
        GetContentCall(c) /\ calls[c].pc \in {"awaitOp", "done"} /\ calls[c].target # NULL
            => /\ calls[c].target = calls[c].ident
               /\ calls[c].reqs[Len(calls[c].reqs)] = "op"
               /\ \A i \in 1..(Len(calls[c].reqs) - 1) :
                     calls[c].reqs[i] \in {"token", "space", "channels"}

\* getContent awaits its detail fetch for a content key, on a Session that needed no refresh.
C11_Witness ==
    \E c \in Slots : /\ GetContentCall(c)
                     /\ calls[c].pc = "awaitOp"
                     /\ calls[c].ident = "MCWV26UCUUYNAFNP3Y53CVWGE23E"
                     /\ calls[c].target = "MCWV26UCUUYNAFNP3Y53CVWGE23E"
                     /\ calls[c].reqs = <<"op">>

(***************************************************************************)
(* C12.  The channel lookup of a call has been answered, by `answer`.      *)
(***************************************************************************)
ChannelsAnswered(c) == calls[c].chans # <<>>

Matching(channels) ==
    {i \in 1..Len(channels) : channels[i].managedContentSpaceId = workspaceId}

\* The lookup's failure is not the call's: the call goes on to its own request.
ChannelLookupAbsorbed(c) ==
    /\ workspaceId # NULL
    /\ channelId # NULL
    /\ \/ calls[c].pc = "awaitOp"
       \/ calls[c].pc = "done" /\ calls[c].err \notin AuthErrors

(***************************************************************************)
(* C12, as claimed: once the channel lookup has been answered, the channel *)
(* id is set and no lookup error is propagated; it is the id of a channel  *)
(* owned by the workspace when there is one, and the workspace id in every *)
(* other case.                                                             *)
(***************************************************************************)
C12_FallbackIsWorkspace ==
    \A c \in Slots :
        ChannelsAnswered(c)
            => LET answer == calls[c].chans[1] IN
               /\ ChannelLookupAbsorbed(c)
               /\ IF answer.ok /\ Matching(answer.channels) # {}
                  THEN \E i \in Matching(answer.channels) : channelId = answer.channels[i].channelId
                  ELSE channelId = workspaceId

(***************************************************************************)
(* C12, amended: as claimed, except that when channels are returned and    *)
(* none is owned by the workspace, the channel id is the id of the first   *)
(* channel returned; it is the workspace id only when no channels are      *)
(* returned or the lookup fails.                                           *)
(***************************************************************************)
C12_FallbackIsFirstChannel ==
    \A c \in Slots :
        ChannelsAnswered(c)
            => LET answer == calls[c].chans[1] IN
               /\ ChannelLookupAbsorbed(c)
               /\ IF answer.ok /\ Matching(answer.channels) # {}
                  THEN \E i \in Matching(answer.channels) : channelId = answer.channels[i].channelId
                  ELSE IF answer.ok /\ Len(answer.channels) > 0
                  THEN channelId = answer.channels[1].channelId
                  ELSE channelId = workspaceId

\* The lookup returned one channel, owned by another workspace, and the call went on.
C12_Witness ==
    \E c \in Slots : /\ ChannelsAnswered(c)
                     /\ calls[c].chans[1].ok
                     /\ Len(calls[c].chans[1].channels) = 1
                     /\ Matching(calls[c].chans[1].channels) = {}
                     /\ calls[c].pc = "awaitOp"

(***************************************************************************)
(* Vocabulary of the validator's properties.                               *)
(***************************************************************************)
\* cms_validate_request has reported on a body that has an sfdc_cms:block.
Reported == validation # <<>> /\ body.block # <<>>

Report == validation[1]

RootBlock == body.block[1]

\* The blocks of a tree, each with its place (the indexes leading to it from
\* the root) and the definition of its parent.
RECURSIVE BlocksOf(_, _, _)
BlocksOf(block, path, parent) ==
    {[at |-> path, id |-> block.id, definition |-> block.definition, parent |-> parent]}
        \cup UNION {BlocksOf(block.children[k], Append(path, k - 1), block.definition) :
                        k \in 1..Len(block.children)}

Blocks == BlocksOf(RootBlock, <<>>, NULL)

HexDigits ==
    {"0", "1", "2", "3", "4", "5", "6", "7", "8", "9",
     "a", "b", "c", "d", "e", "f", "A", "B", "C", "D", "E", "F"}

AllHex(text) == \A i \in 1..Len(text) : text[i] \in HexDigits

\* Five groups of 8, 4, 4, 4 and 12 hexadecimal digits, separated by single
\* hyphens, and nothing else: 36 characters, the hyphens 9th, 14th, 19th and 24th.
IsCanonicalUUID(id) ==
    /\ Len(id) = 8 + 1 + 4 + 1 + 4 + 1 + 4 + 1 + 12
    /\ LET g1 == SubSeq(id, 1, 8)
           g2 == SubSeq(id, 10, 13)
           g3 == SubSeq(id, 15, 18)
           g4 == SubSeq(id, 20, 23)
           g5 == SubSeq(id, 25, 36)
       IN /\ AllHex(g1) /\ AllHex(g2) /\ AllHex(g3) /\ AllHex(g4) /\ AllHex(g5)
          /\ id = g1 \o <<"-">> \o g2 \o <<"-">> \o g3 \o <<"-">> \o g4 \o <<"-">> \o g5

\* The messages of a report that carry a rule, and those that name a place.
ErrorsOf(rule) == {i \in 1..Len(Report.errors) : Report.errors[i].rule = rule}

ErrorsAt(rule, place) ==
    {i \in ErrorsOf(rule) : Report.errors[i].at = place}

(***************************************************************************)
(* C13, as claimed: for a body that has an sfdc_cms:block, the number of   *)
(* messages equals the number of violations of rules 1-4: one per block    *)
(* with an invalid identifier, one for a wrong root definition, one per    *)
(* non-section child of the root, one per non-column child of a section;   *)
(* valid is false exactly when there is one.  Scenario A yields exactly    *)
(* one message.                                                            *)
(***************************************************************************)
Violations ==
    Cardinality({b \in Blocks : ~IsCanonicalUUID(b.id)})
        + (IF RootBlock.definition # RootTag THEN 1 ELSE 0)
        + Cardinality({b \in Blocks : Len(b.at) = 1 /\ b.definition # SectionTag})
        + Cardinality({b \in Blocks : Len(b.at) > 1 /\ b.parent = SectionTag
                                        /\ b.definition # ColumnTag})

C13_OneMessagePerViolation ==
    Reported => /\ Len(Report.errors) = Violations
                /\ Report.valid <=> Violations = 0
                /\ body = ScenarioA => Len(Report.errors) = 1

(***************************************************************************)
(* C14.  Rule 3: for every direct child of the root whose definition is    *)
(* not lightning/section, the report has the message that a direct child   *)
(* of root must be lightning/section, naming that child, and valid is      *)
(* false, whatever else the body holds.                                    *)
(***************************************************************************)
C14_RootChildrenAreSections ==
    Reported =>
        \A k \in 1..Len(RootBlock.children) :
            RootBlock.children[k].definition # SectionTag
                => /\ Cardinality(ErrorsAt("Direct child of root must be lightning/section",
                                           <<k - 1>>)) = 1
                   /\ ~Report.valid

\* Scenario B has been reported on: that message and no other.
C14_Witness ==
    /\ Reported
    /\ body = ScenarioB
    /\ ~Report.valid
    /\ Report.errors = << [rule |-> "Direct child of root must be lightning/section",
                           at |-> <<0>>] >>

(***************************************************************************)
(* C15, as claimed: for every block of kind lightning/section, wherever it *)
(* is in the tree, each of its children whose definition is not            *)
(* lightning/column has a hierarchy message naming it, and valid is false. *)
(***************************************************************************)
HierarchyRules ==
    {"Direct child of root must be lightning/section", "Child of section must be lightning/column"}

C15_EverySectionChecked ==
    Reported =>
        \A b \in Blocks :
            b.parent = SectionTag /\ b.definition # ColumnTag
                => /\ \E rule \in HierarchyRules : ErrorsAt(rule, b.at) # {}
                   /\ ~Report.valid

(***************************************************************************)
(* C15, amended: for every direct child of the root of kind                *)
(* lightning/section, each of its children whose definition is not         *)
(* lightning/column has the message that a child of section must be        *)
(* lightning/column, naming it, and valid is false; no other block gets    *)
(* that message: the children of a section elsewhere in the tree (deeper,  *)
(* or the root itself when it is tagged a section) are not checked.        *)
(***************************************************************************)
C15_RootSectionsChecked ==
    Reported =>
        /\ \A b \in Blocks :
              Len(b.at) = 2 /\ b.parent = SectionTag /\ b.definition # ColumnTag
                  => /\ Cardinality(ErrorsAt("Child of section must be lightning/column", b.at)) = 1
                     /\ ~Report.valid
        /\ \A i \in ErrorsOf("Child of section must be lightning/column") :
              \E b \in Blocks : /\ b.at = Report.errors[i].at
                                /\ Len(b.at) = 2
                                /\ b.parent = SectionTag
                                /\ b.definition # ColumnTag

\* A section under the root with two children that are not columns, both reported.
C15_Witness ==
    /\ Reported
    /\ Len(RootBlock.children) = 1
    /\ RootBlock.children[1].definition = SectionTag
    /\ Len(RootBlock.children[1].children) = 2
    /\ Cardinality(ErrorsOf("Child of section must be lightning/column")) = 2

(***************************************************************************)
(* C16.  validateUUID(id) is true exactly when id is five groups of 8, 4,  *)
(* 4, 4 and 12 hexadecimal digits separated by single hyphens, with        *)
(* nothing before or after, in either letter case: so for the identifier   *)
(* of every block reported on, and the root's message says so.             *)
(***************************************************************************)
C16_ValidateUUID ==
    Reported =>
        /\ \A b \in Blocks :
              /\ validateUUID(b.id) <=> IsCanonicalUUID(b.id)
              /\ ErrorsAt("Invalid UUID", b.at) # {} <=> ~IsCanonicalUUID(b.id)
        /\ ErrorsOf("Root block ID is not a valid UUID") # {} <=> ~IsCanonicalUUID(RootBlock.id)

\* An upper-case UUID has been reported on, and accepted.
C16_Witness ==
    /\ Reported
    /\ RootBlock.id = UuidUpper
    /\ Report.valid

(***************************************************************************)
(* C17.  Validation is advisory: a cms_validate_request ends at once       *)
(* having issued no request and leaves the registry and the Session        *)
(* unchanged; an email create presenting a registered token passes the     *)
(* gate and enters cmsClient.createContent whatever the body it carries    *)
(* and whatever cms_validate_request last reported.                        *)
(***************************************************************************)
C17_ValidationAdvisory ==
    [][\A c \in Slots :
          /\ Started(c) /\ calls'[c].entry = "cms_validate_request"
                => /\ calls'[c].pc = "done"
                   /\ calls'[c].reqs = <<>>
                   /\ UNCHANGED registry
                   /\ UNCHANGED session
          /\ \A t \in Tokens :
                StartsEmailCreate(c, t) /\ t \in clearanceTokens
                    => /\ calls'[c].gate = "passed"
                       /\ EnteredCreate(calls'[c])]_vars

\* Scenario B has been reported invalid, and the email create carrying it awaits
\* the answer to its create request.
C17_Witness ==
    \E c \in Slots : /\ EmailCreate(c)
                     /\ calls[c].gate = "passed"
                     /\ calls[c].pc = "awaitOp"
                     /\ body = ScenarioB
                     /\ validation # <<>>
                     /\ ~validation[1].valid
                     /\ ~validateEmailStructure(body).valid

(***************************************************************************)
(* Vocabulary of the error-handling properties.                            *)
(***************************************************************************)
\* A call that came through the call handler.
ToolCall(rec) == rec.entry # NULL /\ rec.entry \notin DirectCalls

\* This step ends the call of slot c.
Ends(c) == calls[c].pc # "done" /\ calls'[c].pc = "done"

(***************************************************************************)
(* C18.  Every tool call, whatever the tool name and whatever fails        *)
(* underneath, ends in a payload that is either a success payload or an    *)
(* error-flagged one carrying a message; a call in which an error was      *)
(* thrown ends error-flagged, never as a success; a call in flight leaves  *)
(* the handler only by such a payload.                                     *)
(***************************************************************************)
C18_EveryFailureFlagged ==
    [][\A c \in Slots :
          /\ Ends(c) /\ ToolCall(calls'[c])
                => /\ calls'[c].result \in {"success", "error"}
                   /\ calls'[c].result = "error" => calls'[c].err # "none"
                   /\ calls'[c].result = "success"
                         => calls'[c].err = "none" /\ calls'[c].cause = NoError
                   /\ calls'[c].cause # NoError
                         => calls'[c].result = "error" /\ calls'[c].err # "none"
          /\ calls[c].pc # "idle" /\ calls'[c].pc = "idle" => calls[c].pc = "done"]_vars

\* publish_cms_content on an authenticated Session has ended error-flagged after its
\* request failed.
C18_Witness ==
    \E c \in Slots : /\ Ended(c)
                     /\ calls[c].entry = "publish_cms_content"
                     /\ calls[c].reqs = <<"op">>
                     /\ calls[c].cause \in HttpErrors
                     /\ calls[c].result = "error"

(***************************************************************************)
(* C19, as claimed: a tool call that failed because the remote service     *)
(* answered non-2xx ends in an error payload that holds the status code    *)
(* and the response body, also when the answer came during authentication. *)
(***************************************************************************)
MentionsStatus(message) == message \in {StatusError.message, Wrapped(StatusError).message}

C19_StatusAndBodyReported ==
    \A c \in Slots :
        Ended(c) /\ ToolCall(calls[c]) /\ calls[c].cause = StatusError
            => /\ calls[c].result = "error"
               /\ MentionsStatus(calls[c].err)
               /\ calls[c].details = "body"

(***************************************************************************)
(* C20.  Every failure inside authenticate (key read, endpoint choice,     *)
(* signing, token exchange, workspace name, workspace query, workspace not *)
(* found) ends the call with one error whose message is "Authentication    *)
(* failed: " followed by the message of the error that caused it.          *)
(***************************************************************************)
\* This step runs authenticate, from its start or from one of its awaits.
InAuthenticate(c) ==
    \/ calls[c].pc \in {"awaitToken", "awaitSpace"}
    \/ /\ Started(c)
       /\ MethodOf(calls'[c].entry) # NULL
       /\ calls'[c].gate # "rejected"
       /\ calls'[c].entry = "authenticate" \/ NeedsAuthentication

C20_AuthenticationFailedWraps ==
    [][\A c \in Slots :
          InAuthenticate(c) /\ Ends(c) /\ calls'[c].result = "error"
              => /\ calls'[c].cause \in AuthCauses
                 /\ calls'[c].err = "Authentication failed: " \o calls'[c].cause.message]_vars

\* authenticate has failed because no workspace has the configured name.
C20_Witness ==
    \E c \in Slots : /\ Ended(c)
                     /\ calls[c].entry = "authenticate"
                     /\ calls[c].cause = Error("Workspace not found")
                     /\ calls[c].err = "Authentication failed: Workspace not found"
                     /\ calls[c].reqs = <<"token", "space">>

(***************************************************************************)
(* C21.  listContent and searchContent return an array for every           *)
(* successful remote response (the empty array when it carries no items),  *)
(* and they throw only when authentication or the HTTP request fails.      *)
(***************************************************************************)
\* Call c runs listContent or searchContent.
Listing(c) == calls[c].entry \in {"list_cms_content", "searchContent"}

C21_AlwaysASequence ==
    \A c \in Slots :
        Ended(c) /\ Listing(c)
            => /\ calls[c].result = "success"
                    => /\ calls[c].returned # <<>>
                       /\ calls[c].returned[1].kind = "array"
               /\ calls[c].result = "error"
                    => \/ calls[c].err \in AuthErrors
                       \/ calls[c].cause \in HttpErrors

(***************************************************************************)
(* C22, as claimed: for type 'sfdc_cms__email' the posted                  *)
(* contentBody['sfdc_cms:title'] equals the value already present in the   *)
(* body when there is one, and otherwise the title argument; for every     *)
(* other type the posted contentBody equals the supplied one (or an empty  *)
(* map) with no title added.                                               *)
(***************************************************************************)
\* createContent has posted its payload.
Posted(c) == calls[c].entry = "create_cms_content" /\ calls[c].posted # <<>>

PostedBody(c) == calls[c].posted[1]

\* The supplied contentBody, or an empty map when none is supplied.
Supplied ==
    IF body.given
    THEN [subjectLine |-> body.subjectLine, block |-> body.block, title |-> title.inBody]
    ELSE [subjectLine |-> FALSE, block |-> <<>>, title |-> NULL]

OtherTypesUntouched ==
    \A c \in Slots :
        Posted(c) /\ calls[c].ctype # "sfdc_cms__email" => PostedBody(c) = Supplied

C22_TitlePresentOrArgument ==
    /\ \A c \in Slots :
        Posted(c) /\ calls[c].ctype = "sfdc_cms__email"
            => PostedBody(c).title = IF title.inBody # NULL THEN title.inBody ELSE title.argument
    /\ OtherTypesUntouched

(***************************************************************************)
(* C22, amended: for type 'sfdc_cms__email' the posted title equals the    *)
(* body's own title when that is a non-empty string; otherwise it equals   *)
(* the title argument when that is a non-empty string, and otherwise it is *)
(* what the body held (an empty title stays empty, a missing one stays     *)
(* missing); nothing else of the body changes.  For every other type the   *)
(* posted contentBody equals the supplied one (or an empty map).           *)
(***************************************************************************)
C22_TitleNonEmptyOrArgument ==
    /\ \A c \in Slots :
        Posted(c) /\ calls[c].ctype = "sfdc_cms__email"
            => /\ PostedBody(c).title =
                    IF title.inBody \notin {NULL, ""} THEN title.inBody
                    ELSE IF title.argument \notin {NULL, ""} THEN title.argument
                    ELSE Supplied.title
               /\ [PostedBody(c) EXCEPT !.title = Supplied.title] = Supplied
    /\ OtherTypesUntouched

\* An email creation whose body held an empty title was posted with the argument.
C22_Witness ==
    \E c \in Slots : /\ Posted(c)
                     /\ calls[c].ctype = "sfdc_cms__email"
                     /\ calls[c].pc = "awaitOp"
                     /\ title.inBody = ""
                     /\ PostedBody(c).title = "Title argument"

(***************************************************************************)
(* C23.  The Session fields (bearer token, expiry, base address, workspace *)
(* id, channel id) change only in a step of authenticate: a step of a call *)
(* that has not triggered authenticate, and any step that is no step of a  *)
(* call, leaves all five unchanged.                                        *)
(***************************************************************************)
\* This step resumes call c inside authenticate (getWorkspaceId included).
AuthenticateStep(c) ==
    /\ calls[c].pc \in {"awaitToken", "awaitSpace", "awaitChannels"}
    /\ calls'[c] # calls[c]
    /\ Exchanges(calls[c].reqs) > 0

C23_OnlyAuthenticateMutates ==
    [][/\ session' # session => \E c \in Slots : AuthenticateStep(c)
       /\ \A c \in Slots :
            calls'[c] # calls[c] /\ Exchanges(calls'[c].reqs) = 0 => session' = session]_vars

\* A remote operation that found the Session fresh has ended, the Session as it was.
C23_Witness ==
    \E c \in Slots : /\ Ended(c)
                     /\ calls[c].entry = "update_cms_content"
                     /\ calls[c].reqs = <<"op">>
                     /\ calls[c].result = "error"
                     /\ accessToken # NULL
                     /\ workspaceId # NULL
                     /\ channelId # NULL

(***************************************************************************)
(* C24.  With calls overlapping at their awaits in any order, at most one  *)
(* email creation per issued token passes the gate, also when two creates  *)
(* presenting the same token are in flight together: the check and the     *)
(* removal happen in one run of the handler, before its first await.       *)
(***************************************************************************)
\* The calls now in their slots that passed the gate presenting t.
PassedWith(t) ==
    {c \in Slots : EmailCreate(c) /\ calls[c].gate = "passed" /\ calls[c].tok = t}

C24_GateAtomic ==
    \A t \in Tokens :
        /\ passed[t] <= 1
        /\ Cardinality(PassedWith(t)) <= 1
        /\ PassedWith(t) # {} => t \notin clearanceTokens

\* Two creates presenting one token overlap: the first is past the gate and
\* suspended, the second has been rejected.
C24_Witness ==
    \E c, d \in Slots, t \in Tokens :
        /\ c # d
        /\ c \in PassedWith(t)
        /\ InFlight(c)
        /\ EmailCreate(d)
        /\ calls[d].tok = t
        /\ calls[d].gate = "rejected"
        /\ calls[d].err = ClearanceInvalid

(***************************************************************************)
(* C25.  Whenever ensureAuthenticated would be a no-op for the next call   *)
(* (a token is held and now < tokenExpiry - 60 s, no call in the middle of *)
(* authenticate), the workspace id and the channel id are resolved: a      *)
(* failed workspace lookup leaves no Session that later operations accept. *)
(***************************************************************************)
C25_AcceptedSessionIsResolved ==
    /\ \A c \in Slots : ~InFlight(c)
    /\ accessToken # NULL
    /\ tokenExpiry # NoExpiry
    /\ now < tokenExpiry - 60000
    => workspaceId # NULL /\ channelId # NULL

(***************************************************************************)
(* C26.  ensureAuthenticated invokes authenticate if and only if no token  *)
(* is held, no expiry is recorded, or now >= tokenExpiry - 60000 ms (the   *)
(* boundary instant itself triggers a refresh); in every other state it    *)
(* issues no request and changes no Session field.                         *)
(***************************************************************************)
\* This step starts a client method that begins with ensureAuthenticated.
StartsEnsuring(c) ==
    /\ Started(c)
    /\ MethodOf(calls'[c].entry) \notin {NULL, "authenticate"}
    /\ calls'[c].gate # "rejected"

\* The starting call ran authenticate: it posted the assertion, or failed before.
InvokedAuthenticate(c) ==
    \/ calls'[c].reqs = <<"token">>
    \/ calls'[c].pc = "done" /\ calls'[c].reqs = <<>> /\ calls'[c].err \in AuthErrors

C26_RefreshExactlyWhenStale ==
    [][\A c \in Slots :
          StartsEnsuring(c)
            => LET stale == \/ accessToken = NULL
                            \/ tokenExpiry = NoExpiry
                            \/ now >= tokenExpiry - 60000
               IN /\ InvokedAuthenticate(c) <=> stale
                  /\ ~stale => /\ session' = session
                               /\ Exchanges(calls'[c].reqs) = 0
                               /\ calls'[c].entry = "ensureAuthenticated"
                                    => /\ calls'[c].reqs = <<>>
                                       /\ calls'[c].pc = "done"
                                       /\ calls'[c].result = "success"]_vars

\* A call started at the boundary instant, a token held: it is exchanging tokens.
C26_Witness ==
    \E c \in Slots : /\ calls[c].entry = "ensureAuthenticated"
                     /\ calls[c].pc = "awaitToken"
                     /\ ~calls[c].moved
                     /\ accessToken # NULL
                     /\ now = tokenExpiry - 60000

(***************************************************************************)
(* C27.  validateEmailStructure returns valid = true exactly when its list *)
(* of violations is empty, on every return path (the early return for a    *)
(* missing sfdc_cms:block included); the warning for a missing subjectLine *)
(* never changes valid.                                                    *)
(***************************************************************************)
\* The same body with the subjectLine added or taken away.
OtherSubjectLine == [body EXCEPT !.subjectLine = ~@]

C27_ValidIffNoViolations ==
    validation # <<>>
        => /\ validation[1].valid <=> Len(validation[1].errors) = 0
           /\ body.block = <<>> => ~validation[1].valid /\ Len(validation[1].errors) = 1
           /\ Len(validation[1].warnings) > 0 <=> ~body.subjectLine
           /\ LET other == validateEmailStructure(OtherSubjectLine)
              IN other.valid = validation[1].valid /\ other.errors = validation[1].errors

\* A body without subjectLine was reported valid, with its warning.
C27_Witness ==
    /\ validation # <<>>
    /\ ~body.subjectLine
    /\ body.block # <<>>
    /\ validation[1].valid
    /\ Len(validation[1].warnings) = 1

(***************************************************************************)
(* C28.  Every token issued by cms_preflight_check is eventually absent    *)
(* from the registry: provided timers eventually fire, each issued token   *)
(* is either consumed by a gate pass or evicted by its own timer, so the   *)
(* registry never retains a token forever.                                 *)
(***************************************************************************)
C28_EveryTokenLeaves ==
    /\ \A t \in Tokens : (t \in clearanceTokens) ~> (t \notin clearanceTokens)
    /\ [](\A t \in Tokens :
            t \in issued /\ t \notin clearanceTokens => passed[t] >= 1 \/ Expired(t))

\* Both ways out have been taken: one token was consumed at the gate while its
\* timer was pending, another was evicted by its timer, and the registry is empty.
C28_Witness ==
    /\ clearanceTokens = {}
    /\ \E t, u \in Tokens : /\ passed[t] = 1 /\ TimerPending(t)
                            /\ passed[u] = 0 /\ Expired(u)

(***************************************************************************)
(* C29.  Once the workspace id has been resolved, every later              *)
(* re-authentication skips the workspace and channel lookups and leaves    *)
(* workspaceId and channelId unchanged: they keep their first resolved     *)
(* values for the rest of the process lifetime.                            *)
(***************************************************************************)
\* This step is call c's token response arriving.
TokenAnswered(c) == calls[c].pc = "awaitToken" /\ calls'[c] # calls[c]

C29_ResolvedOnce ==
    [][/\ workspaceId # NULL => workspaceId' = workspaceId
       /\ channelId # NULL => channelId' = channelId
       /\ \A c \in Slots :
            TokenAnswered(c) /\ workspaceId # NULL
                => /\ calls'[c].pc \notin {"awaitSpace", "awaitChannels"}
                   /\ \A i \in DOMAIN calls'[c].reqs : calls'[c].reqs[i] \notin {"space", "channels"}]_vars

\* After the token's lifetime a remote operation exchanged tokens again and went
\* straight on to its request, the identifiers as they were.
C29_Witness ==
    \E c \in Slots : /\ calls[c].pc = "awaitOp"
                     /\ calls[c].reqs = <<"token", "op">>
                     /\ ~calls[c].moved
                     /\ now >= TOKEN_LIFETIME - SAFETY_MARGIN
                     /\ workspaceId # NULL
                     /\ channelId # NULL

(***************************************************************************)
(* C30.  When two remote operations overlap while the Session has no valid *)
(* token (the second starts while the first is suspended awaiting its      *)
(* token exchange), only one token exchange is performed, and neither      *)
(* operation issues its request with a partially refreshed Session.        *)
(***************************************************************************)
\* The calls now in their slots that have posted a token exchange.
Exchanging == {c \in Slots : calls[c].pc # "idle" /\ Exchanges(calls[c].reqs) > 0}

C30_OneExchangeWhenOverlapping ==
    /\ Cardinality(Exchanging) <= 1
    /\ \A c \in Exchanging :
        calls[c].pc = "awaitOp"
            => accessToken # NULL /\ workspaceId # NULL /\ channelId # NULL

====
